---- MODULE Spec2Model ----
(***************************************************************************)
(* FantasyEdgeAI (src/main.py): a FastAPI service holding one model, one   *)
(* scaler and one working table in process globals, with a startup         *)
(* initializer, a feature pipeline, POST /retrain and POST /predict.       *)
(*                                                                         *)
(* Strings that the code orders or concatenates (player names) are tuples  *)
(* of character codes, so that concatenation and sorting are computed.     *)
(* A missing value (NaN) is the empty tuple, a present value v is <<v>>,   *)
(* and a mean is the pair <<sum, count>>.                                  *)
(***************************************************************************)
EXTENDS Integers, Sequences, FiniteSets, TLC

VARIABLES
  model,       \* global `model`: NoModel or a fitted estimator
  scaler,      \* global `scaler`: Unfit or a fitted transform
  data,        \* global `data`: the working table (a DataFrame)
  diskModel,   \* fantasy_edge_rf_model.pkl
  diskScaler,  \* scaler.pkl
  diskTable,   \* Player_Data.csv
  started,     \* the lifespan startup has run and the app serves requests
  resp,        \* the outcome of the last startup or request
  pipeIn,      \* feature pipeline on its own: the input table
  pipeOut,     \* feature pipeline on its own: the returned table
  pipeDone,    \* feature pipeline on its own: the call has returned
  rpc,         \* handlers step by step: next statement group of the /retrain in flight, 0 if none
  rUp,         \* handlers step by step: what the /retrain in flight meets upstream
  rBefore,     \* handlers step by step: the working table when that /retrain began
  ppc,         \* handlers step by step: "idle", "queued" or "read" (past line 147)
  pName,       \* handlers step by step: the name the /predict asks for
  pSeen,       \* handlers step by step: model and table the /predict read at lines 140-144
  pQueuedAt,   \* handlers step by step: rpc when the /predict arrived
  pObs         \* handlers step by step: when the last completed /predict read the scaler

vars == <<model, scaler, data, diskModel, diskScaler, diskTable, started, resp,
          pipeIn, pipeOut, pipeDone,
          rpc, rUp, rBefore, ppc, pName, pSeen, pQueuedAt, pObs>>

progVars == <<model, scaler, data, diskModel, diskScaler, diskTable, started, resp>>

pipeVars == <<pipeIn, pipeOut, pipeDone>>

concVars == <<rpc, rUp, rBefore, ppc, pName, pSeen, pQueuedAt, pObs>>

----------------------------------------------------------------------------
(* Bounds of the feature-pipeline inputs *)

MaxGames == 6

MaxOther == 2

Pts == {0, 3}

----------------------------------------------------------------------------
(* Values *)

NaN == <<>>

Val(v) == <<v>>

IsNaN(x) == x = NaN

SP == 32

RECURSIVE SumSeq(_)
SumSeq(s) == IF s = <<>> THEN 0 ELSE Head(s) + SumSeq(Tail(s))

RECURSIVE MaxSeq(_)
MaxSeq(s) ==
  IF Len(s) = 1 THEN s[1]
  ELSE LET m == MaxSeq(Tail(s)) IN IF s[1] >= m THEN s[1] ELSE m

(* Python's str comparison: lexicographic on code points, a proper prefix first *)
RECURSIVE StrLess(_, _)
StrLess(a, b) ==
  IF b = <<>> THEN FALSE
  ELSE IF a = <<>> THEN TRUE
  ELSE IF a[1] # b[1] THEN a[1] < b[1]
  ELSE StrLess(Tail(a), Tail(b))

----------------------------------------------------------------------------
(* DataFrames: cols is the set of column labels, rows the rows in order.   *)
(* A row carries its index label idx and the values the handlers read;     *)
(* the 21 raw statistics and daysSinceLastGame are present as columns      *)
(* only.                                                                   *)

EmptyFrame == [cols |-> {}, rows |-> <<>>]

StatCols ==
  {"goalsScored", "assists", "cleanSheets", "penaltiesSaved", "penaltiesMissed",
   "ownGoals", "yellowCards", "redCards", "saves", "bonus", "bonusPointsSystem",
   "dreamTeamCount", "expectedGoals", "expectedAssists", "expectedGoalInvolvements",
   "expectedGoalsConceded", "expectedGoalsPer90", "expectedAssistsPer90",
   "goalsConcededPer90", "startsPer90", "cleanSheetsPer90"}

get_features == StatCols \cup {"avgPointsLast3", "maxPointsLast5", "daysSinceLastGame"}

RawCols == {"firstName", "secondName", "gameWeek", "totalPoints", "position"} \cup StatCols

HasCols(df, cs) == cs \subseteq df.cols

(* df[c] = series: assignment of a series aligns on the index label *)
AssignCol(df, c, series) ==
  [cols |-> df.cols \cup {c},
   rows |-> [i \in 1..Len(df.rows) |->
               [f \in (DOMAIN df.rows[i]) \cup {c} |->
                  IF f = c THEN series[df.rows[i].idx] ELSE df.rows[i][f]]]]

IndexOf(df) == {df.rows[i].idx : i \in 1..Len(df.rows)}

RowAt(df, ix) == df.rows[CHOOSE i \in 1..Len(df.rows) : df.rows[i].idx = ix]

----------------------------------------------------------------------------
(* preprocess_data *)

(* line 67: firstName + " " + secondName *)
ConcatName(r) == r.firstName \o <<SP>> \o r.secondName

(* line 68: the sort key (playerName, gameWeek) *)
RowLess(a, b) ==
  \/ StrLess(a.playerName, b.playerName)
  \/ a.playerName = b.playerName /\ a.gameWeek < b.gameWeek

RECURSIVE InsertSorted(_, _)
InsertSorted(r, s) ==
  IF s = <<>> THEN <<r>>
  ELSE IF RowLess(r, s[1]) THEN <<r>> \o s
  ELSE <<s[1]>> \o InsertSorted(r, Tail(s))

RECURSIVE SortRows(_)
SortRows(s) ==
  IF s = <<>> THEN <<>>
  ELSE InsertSorted(s[Len(s)], SortRows(SubSeq(s, 1, Len(s) - 1)))

sort_values(df) == [cols |-> df.cols, rows |-> SortRows(df.rows)]

(* groupby("playerName"): one player's rows in table order *)
Group(df, name) == SelectSeq(df.rows, LAMBDA r : r.playerName = name)

PosInGroup(g, ix) == CHOOSE i \in 1..Len(g) : g[i].idx = ix

Points(g) == [i \in 1..Len(g) |-> g[i].totalPoints]

(* line 71: shift(1) within the group *)
Shift1(tp, i) == IF i <= 1 THEN NaN ELSE Val(tp[i - 1])

(* line 72: rolling(w).mean() within the group; <<sum, w>> is sum / w *)
RollingMean_Short(tp, i, w) ==
  IF i < w THEN NaN ELSE <<SumSeq(SubSeq(tp, i - w + 2, i)), w>>

RollingMean(tp, i, w) ==
  IF i < w THEN NaN ELSE <<SumSeq(SubSeq(tp, i - w + 1, i)), w>>

(* line 73: rolling(w).max() within the group *)
RollingMax(tp, i, w) ==
  IF i < w THEN NaN ELSE Val(MaxSeq(SubSeq(tp, i - w + 1, i)))

(* The per-group results as series over the frame's index labels (the     *)
(* player level of the rolling results is dropped by reset_index)         *)
GroupOf(df, ix) == Group(df, RowAt(df, ix).playerName)

ShiftSeries(df) ==
  [ix \in IndexOf(df) |->
     Shift1(Points(GroupOf(df, ix)), PosInGroup(GroupOf(df, ix), ix))]

MeanSeries(df, w) ==
  [ix \in IndexOf(df) |->
     RollingMean(Points(GroupOf(df, ix)), PosInGroup(GroupOf(df, ix), ix), w)]

MaxSeries(df, w) ==
  [ix \in IndexOf(df) |->
     RollingMax(Points(GroupOf(df, ix)), PosInGroup(GroupOf(df, ix), ix), w)]

(* line 80: dropna(subset=[...]) *)
dropna(df) ==
  [cols |-> df.cols,
   rows |-> SelectSeq(df.rows, LAMBDA r :
              /\ ~IsNaN(r.previousPoints)
              /\ ~IsNaN(r.avgPointsLast3)
              /\ ~IsNaN(r.maxPointsLast5))]

(* The call as a whole.  arg is the caller's frame after the call (line 67  *)
(* adds playerName to the caller's object in place; every later statement   *)
(* works on copies), out is the returned frame, ok is FALSE when a          *)
(* statement raised KeyError.                                               *)
preprocess_data(df) ==
  IF ~HasCols(df, {"firstName", "secondName"})
  THEN [ok |-> FALSE, arg |-> df, out |-> EmptyFrame]
  ELSE
    LET named == AssignCol(df, "playerName",
                   [ix \in IndexOf(df) |-> ConcatName(RowAt(df, ix))])
    IN
    IF ~HasCols(named, {"gameWeek"}) \/ ~HasCols(named, {"totalPoints"})
    THEN [ok |-> FALSE, arg |-> named, out |-> EmptyFrame]
    ELSE
      LET sorted == sort_values(named)
          prev == AssignCol(sorted, "previousPoints", ShiftSeries(sorted))
          avg  == AssignCol(prev, "avgPointsLast3", MeanSeries(prev, 3))
          max  == AssignCol(avg, "maxPointsLast5", MaxSeries(avg, 5))
          days == [cols |-> max.cols \cup {"daysSinceLastGame"}, rows |-> max.rows]
      IN [ok |-> TRUE, arg |-> named, out |-> dropna(days)]

----------------------------------------------------------------------------
(* Raw tables as pd.DataFrame(response.json()) builds them: a RangeIndex    *)
(* 0..n-1 over the records in the order received.                           *)

Reindex(rows) ==
  [i \in 1..Len(rows) |->
     [f \in (DOMAIN rows[i]) \cup {"idx"} |-> IF f = "idx" THEN i - 1 ELSE rows[i][f]]]

Reverse(s) == [i \in 1..Len(s) |-> s[Len(s) + 1 - i]]

Keeper == [firstName |-> <<78>>, secondName |-> <<75>>, position |-> 1]

Striker == [firstName |-> <<70>>, secondName |-> <<87>>, position |-> 3]

(* One player's records, game k played in gameweek first + (k-1)*step *)
GamesOf(p, pts, first, step) ==
  [k \in 1..Len(pts) |->
     [firstName |-> p.firstName, secondName |-> p.secondName,
      position |-> p.position, gameWeek |-> first + (k - 1) * step,
      totalPoints |-> pts[k]]]

RawFrame(rows) == [cols |-> RawCols, rows |-> Reindex(rows)]

(* a, b alternating, as an upstream that lists by gameweek sends them *)
RECURSIVE Interleave(_, _)
Interleave(a, b) ==
  IF a = <<>> THEN b
  ELSE IF b = <<>> THEN a
  ELSE <<a[1], b[1]>> \o Interleave(Tail(a), Tail(b))

----------------------------------------------------------------------------
(* The globals and the persisted files *)

NoModel == [loaded |-> FALSE, trainedOn |-> <<>>]

Unfit == [fitted |-> FALSE, fitOn |-> <<>>]

Absent == [exists |-> FALSE, content |-> <<>>]

File(c) == [exists |-> TRUE, content |-> c]

(* data[features] / data["totalPoints"]: the values of the rows, index dropped *)
Values(df) ==
  [i \in 1..Len(df.rows) |->
     [f \in (DOMAIN df.rows[i]) \ {"idx"} |-> df.rows[i][f]]]

(* StandardScaler.fit on X *)
Fit(X) == [fitted |-> TRUE, fitOn |-> X]

(* RandomForestRegressor.fit with the best parameters, on the training split of X *)
Train(X) == [loaded |-> TRUE, trainedOn |-> X]

(* to_csv(index=False) writes the header and the rows without the index;   *)
(* read_csv builds a fresh RangeIndex                                      *)
to_csv(df) == File([cols |-> df.cols, rows |-> Values(df)])

read_csv(file) == [cols |-> file.content.cols, rows |-> Reindex(file.content.rows)]

Globals == [model |-> model, scaler |-> scaler, data |-> data,
            diskModel |-> diskModel, diskScaler |-> diskScaler, diskTable |-> diskTable]

SetGlobals(g) ==
  /\ model' = g.model
  /\ scaler' = g.scaler
  /\ data' = g.data
  /\ diskModel' = g.diskModel
  /\ diskScaler' = g.diskScaler
  /\ diskTable' = g.diskTable

----------------------------------------------------------------------------
(* lifespan: the module-level globals of a fresh process (lines 16-18),    *)
(* then the startup block; every exception is caught at line 35            *)

lifespan(g) ==
  LET g0 == [g EXCEPT !.model = NoModel, !.scaler = Unfit, !.data = EmptyFrame]
  IN
  IF ~g0.diskModel.exists
  THEN [g |-> g0, failedAt |-> "load_model"]
  ELSE
    LET g1 == [g0 EXCEPT !.model = g0.diskModel.content] IN
    IF ~g1.diskTable.exists
    THEN [g |-> g1, failedAt |-> "read_csv"]
    ELSE
      LET g2 == [g1 EXCEPT !.data = read_csv(g1.diskTable)] IN
      IF ~HasCols(g2.data, get_features)
      THEN [g |-> g2, failedAt |-> "features"]
      ELSE IF Len(g2.data.rows) = 0
      THEN [g |-> g2, failedAt |-> "fit"]
      ELSE [g |-> [g2 EXCEPT !.scaler = Fit(Values(g2.data))], failedAt |-> "none"]

----------------------------------------------------------------------------
(* fetch_data: what requests.get met upstream *)

Unreachable == [kind |-> "unreachable", status |-> 0, body |-> EmptyFrame]

Status(code) == [kind |-> "status", status |-> code, body |-> EmptyFrame]

Ok(df) == [kind |-> "ok", status |-> 200, body |-> df]

fetch_data_Swallow(up) ==
  IF up.kind = "ok" THEN [ok |-> TRUE, df |-> up.body] ELSE [ok |-> TRUE, df |-> EmptyFrame]

fetch_data(up) ==
  IF up.kind = "unreachable" THEN [ok |-> FALSE, df |-> EmptyFrame]
  ELSE IF up.status >= 400 THEN [ok |-> FALSE, df |-> EmptyFrame]
  ELSE [ok |-> TRUE, df |-> up.body]

----------------------------------------------------------------------------
(* retrain_model, statement by statement.  Step(k, g, up) is the k-th       *)
(* statement group run on the globals g: ok is FALSE when it raised.        *)

TestFraction == 5

Folds == 5

(* train_test_split(test_size=0.2): n_test = ceil(n / 5), n_train = n - n_test *)
TrainSize(n) == n - ((n + TestFraction - 1) \div TestFraction)

LastStep == 7

Step(k, g, up) ==
  CASE k = 1 ->  \* line 90: data = fetch_data(url)
         LET f == fetch_data(up) IN
         IF f.ok THEN [ok |-> TRUE, g |-> [g EXCEPT !.data = f.df], at |-> "none"]
         ELSE [ok |-> FALSE, g |-> g, at |-> "fetch"]
    [] k = 2 ->  \* line 93: data = preprocess_data(data)
         LET p == preprocess_data(g.data) IN
         IF p.ok THEN [ok |-> TRUE, g |-> [g EXCEPT !.data = p.out], at |-> "none"]
         ELSE [ok |-> FALSE, g |-> [g EXCEPT !.data = p.arg], at |-> "preprocess"]
    [] k = 3 ->  \* line 94: data.to_csv
         [ok |-> TRUE, g |-> [g EXCEPT !.diskTable = to_csv(g.data)], at |-> "none"]
    [] k = 4 ->  \* lines 97-102: X, y, scaler.fit_transform(X)
         IF ~HasCols(g.data, get_features \cup {"totalPoints"})
         THEN [ok |-> FALSE, g |-> g, at |-> "features"]
         ELSE IF Len(g.data.rows) = 0
         THEN [ok |-> FALSE, g |-> g, at |-> "scale"]
         ELSE [ok |-> TRUE, g |-> [g EXCEPT !.scaler = Fit(Values(g.data))], at |-> "none"]
    [] k = 5 ->  \* lines 105-126: train_test_split, GridSearchCV(cv=5).fit
         IF TrainSize(Len(g.data.rows)) = 0
         THEN [ok |-> FALSE, g |-> g, at |-> "split"]
         ELSE IF TrainSize(Len(g.data.rows)) < Folds
         THEN [ok |-> FALSE, g |-> g, at |-> "grid_search"]
         ELSE [ok |-> TRUE, g |-> g, at |-> "none"]
    [] k = 6 ->  \* lines 129-130: model = RandomForestRegressor(...); model.fit
         [ok |-> TRUE, g |-> [g EXCEPT !.model = Train(Values(g.data))], at |-> "none"]
    [] k = 7 ->  \* lines 133-134: joblib.dump(model), joblib.dump(scaler)
         [ok |-> TRUE,
          g |-> [g EXCEPT !.diskModel = File(g.model), !.diskScaler = File(g.scaler)],
          at |-> "none"]

RetrainResp(up, at) ==
  [op |-> "retrain", up |-> up, failedAt |-> at,
   status |-> IF at = "none" THEN 200 ELSE 500,
   detail |-> CASE at = "none" -> "Model retrained successfully"
                [] at = "fetch" -> "Data fetch error"
                [] OTHER -> "Internal Server Error"]

RECURSIVE RunFrom(_, _, _)
RunFrom(k, g, up) ==
  IF k > LastStep THEN [g |-> g, resp |-> RetrainResp(up, "none")]
  ELSE LET r == Step(k, g, up) IN
       IF r.ok THEN RunFrom(k + 1, r.g, up)
       ELSE [g |-> r.g, resp |-> RetrainResp(up, r.at)]

retrain_model(g, up) == RunFrom(1, g, up)

----------------------------------------------------------------------------
(* predict *)

Matching(df, name) == SelectSeq(df.rows, LAMBDA r : r.playerName = name)

PredictResp(name, status, detail, keys, from) ==
  [op |-> "predict", name |-> name, status |-> status, detail |-> detail,
   keys |-> keys, from |-> from]

NoValue == [model |-> <<>>, scaler |-> <<>>, row |-> <<>>]

(* lines 140-147: the two preconditions, checked outside the try block      *)
Precheck_LookupFirst(m, df, name) ==
  IF "playerName" \notin df.cols THEN "KeyError"
  ELSE IF Matching(df, name) = <<>> THEN "404"
  ELSE IF ~m.loaded THEN "503"
  ELSE "ok"

Precheck(m, df, name) ==
  IF ~m.loaded THEN "503"
  ELSE IF "playerName" \notin df.cols THEN "KeyError"
  ELSE IF Matching(df, name) = <<>> THEN "404"
  ELSE "ok"

BaseKeys == {"playerName", "predictedPoints", "percentageChange", "trend",
             "averageBonusPoints", "pointsPerWeek"}

(* lines 149-190, with the table df read at line 144 and the scaler s and   *)
(* model m read at lines 152-154                                            *)
Compute(df, s, m, name) ==
  LET pd == Matching(df, name)
      last == pd[Len(pd)]
  IN
  IF ~HasCols(df, get_features)
  THEN PredictResp(name, 500, "KeyError", {}, NoValue)
  ELSE IF ~s.fitted
  THEN PredictResp(name, 500, "NotFittedError", {}, NoValue)
  ELSE IF ~HasCols(df, {"previousPoints", "position", "totalPoints"})
  THEN PredictResp(name, 500, "KeyError", {}, NoValue)
  ELSE IF pd[1].position # 1
  THEN PredictResp(name, 200, "", BaseKeys \cup {"assistsPercentage", "goalsPercentage"},
                   [model |-> m.trainedOn, scaler |-> s.fitOn,
                    row |-> [f \in (DOMAIN last) \ {"idx"} |-> last[f]]])
  ELSE \* line 186 reads total_games, which only line 174 binds
       PredictResp(name, 500, "UnboundLocalError", {}, NoValue)

predict_core(mSeen, df, s, m, name) ==
  LET pre == Precheck(mSeen, df, name) IN
  CASE pre = "503" -> PredictResp(name, 503, "Model not trained yet", {}, NoValue)
    [] pre = "KeyError" -> PredictResp(name, 500, "Internal Server Error", {}, NoValue)
    [] pre = "404" -> PredictResp(name, 404, "Player not found", {}, NoValue)
    [] OTHER -> Compute(df, s, m, name)

predict(g, name) == predict_core(g.model, g.data, g.scaler, g.model, name)

----------------------------------------------------------------------------
(* What the upstream can send, and the names clients ask for *)

KeeperRun == <<2, 6, 1, 0, 3, 5, 2, 8>>

StrikerRun == <<3, 5, 2, 8, 4, 6, 0, 7, 1, 9, 2>>

FullSet == RawFrame(Interleave(GamesOf(Keeper, KeeperRun, 1, 1),
                               GamesOf(Striker, SubSeq(StrikerRun, 1, 8), 1, 1)))

StrikerSet == RawFrame(GamesOf(Striker, StrikerRun, 1, 1))

SmallSet == RawFrame(GamesOf(Keeper, KeeperRun, 1, 1) \o
                     GamesOf(Striker, SubSeq(StrikerRun, 1, 5), 1, 1))

OneRowSet == RawFrame(GamesOf(Striker, SubSeq(StrikerRun, 1, 5), 1, 1))

ShortSet == RawFrame(GamesOf(Keeper, SubSeq(KeeperRun, 1, 3), 1, 1))

Without(df, c) ==
  [cols |-> df.cols \ {c},
   rows |-> [i \in 1..Len(df.rows) |->
               [f \in (DOMAIN df.rows[i]) \ {c} |-> df.rows[i][f]]]]

NoWeekSet == Without(FullSet, "gameWeek")

NoBonusSet == Without(FullSet, "bonus")

Upstream ==
  {Unreachable, Status(503)} \cup
  {Ok(df) : df \in {FullSet, StrikerSet, SmallSet, OneRowSet, ShortSet,
                    EmptyFrame, NoWeekSet, NoBonusSet}}

Names == {ConcatName(Keeper), ConcatName(Striker), <<88>>}

----------------------------------------------------------------------------
(* The service: one action per handler *)

ProgInit ==
  /\ model = NoModel
  /\ scaler = Unfit
  /\ data = EmptyFrame
  /\ diskModel = Absent
  /\ diskScaler = Absent
  /\ diskTable = Absent
  /\ started = FALSE
  /\ resp = [op |-> "none"]

PipeIdle ==
  /\ pipeIn = EmptyFrame
  /\ pipeOut = EmptyFrame
  /\ pipeDone = FALSE

NoObs == [valid |-> FALSE, rpc |-> 0, queuedAt |-> 0, stale |-> FALSE]

NothingSeen == [model |-> NoModel, data |-> EmptyFrame]

ConcIdle ==
  /\ rpc = 0
  /\ rUp = Unreachable
  /\ rBefore = EmptyFrame
  /\ ppc = "idle"
  /\ pName = <<>>
  /\ pSeen = NothingSeen
  /\ pQueuedAt = 0
  /\ pObs = NoObs

Init == ProgInit /\ PipeIdle /\ ConcIdle

(* the process starts, or is restarted *)
Startup ==
  /\ LET r == lifespan(Globals) IN
       /\ SetGlobals(r.g)
       /\ resp' = [op |-> "startup", failedAt |-> r.failedAt]
  /\ started' = TRUE
  /\ UNCHANGED <<pipeVars, concVars>>

Retrain(up) ==
  /\ started
  /\ LET r == retrain_model(Globals, up) IN
       /\ SetGlobals(r.g)
       /\ resp' = r.resp
  /\ UNCHANGED <<started, pipeVars, concVars>>

Predict(name) ==
  /\ started
  /\ resp' = predict(Globals, name)
  /\ UNCHANGED <<model, scaler, data, diskModel, diskScaler, diskTable, started,
                 pipeVars, concVars>>

Next ==
  \/ Startup
  \/ \E up \in Upstream : Retrain(up)
  \/ \E name \in Names : Predict(name)

Spec == Init /\ [][Next]_vars

----------------------------------------------------------------------------
(* The two handlers statement by statement on the server's event loop.     *)
(* Both are coroutines (async def, lines 85 and 139) whose bodies hold no  *)
(* await: once the loop has entered one it runs it to its return before    *)
(* it runs anything else.  uvicorn.run(app) at line 194 starts one process *)
(* with one loop.                                                          *)

RetrainBusy == rpc # 0

PredictBusy == ppc = "read"

(* may the loop run a statement of a handler while another handler is      *)
(* between its first statement and its return                              *)
MayRun_Threads(otherBusy) == TRUE

MayRun(otherBusy) == ~otherBusy

ConcUpstream == {Unreachable, Ok(FullSet), Ok(StrikerSet), Ok(SmallSet)}

(* the locals of a handler are gone when it has returned *)
RetrainReturned ==
  /\ rpc' = 0
  /\ rUp' = Unreachable
  /\ rBefore' = EmptyFrame

PredictReturned ==
  /\ ppc' = "idle"
  /\ pName' = <<>>
  /\ pSeen' = NothingSeen
  /\ pQueuedAt' = 0

ConcNames == {ConcatName(Striker), <<88>>}

ConcStartup ==
  /\ ~RetrainBusy
  /\ ~PredictBusy
  /\ LET r == lifespan(Globals) IN
       /\ SetGlobals(r.g)
       /\ resp' = [op |-> "startup", failedAt |-> r.failedAt]
  /\ started' = TRUE
  /\ UNCHANGED <<pipeVars, concVars>>

(* the loop enters retrain_model *)
RetrainBegin(up) ==
  /\ started
  /\ rpc = 0
  /\ MayRun(PredictBusy)
  /\ rpc' = 1
  /\ rUp' = up
  /\ rBefore' = data
  /\ UNCHANGED <<progVars, pipeVars, ppc, pName, pSeen, pQueuedAt, pObs>>

(* the next statement group of retrain_model; the handler returns after    *)
(* the last one or when one raises                                         *)
RetrainStep ==
  /\ rpc # 0
  /\ MayRun(PredictBusy)
  /\ LET r == Step(rpc, Globals, rUp) IN
       /\ SetGlobals(r.g)
       /\ IF r.ok /\ rpc < LastStep
          THEN rpc' = rpc + 1 /\ resp' = resp /\ UNCHANGED <<rUp, rBefore>>
          ELSE RetrainReturned /\ resp' = RetrainResp(rUp, r.at)
  /\ UNCHANGED <<started, pipeVars, ppc, pName, pSeen, pQueuedAt, pObs>>

(* a /predict request reaches the server *)
PredictArrive(name) ==
  /\ started
  /\ ppc = "idle"
  /\ ppc' = "queued"
  /\ pName' = name
  /\ pQueuedAt' = rpc
  /\ pObs' = NoObs
  /\ UNCHANGED <<progVars, pipeVars, rpc, rUp, rBefore, pSeen>>

(* lines 140-147: the model check and the lookup in the table *)
PredictRead ==
  /\ ppc = "queued"
  /\ MayRun(RetrainBusy)
  /\ IF Precheck(model, data, pName) = "ok"
     THEN /\ ppc' = "read"
          /\ pSeen' = [model |-> model, data |-> data]
          /\ resp' = resp
          /\ UNCHANGED <<pName, pQueuedAt>>
     ELSE /\ PredictReturned
          /\ resp' = predict_core(model, data, scaler, model, pName)
  /\ UNCHANGED <<model, scaler, data, diskModel, diskScaler, diskTable, started,
                 pipeVars, rpc, rUp, rBefore, pObs>>

(* lines 149-190: the scaler and the model are read here *)
PredictCompute ==
  /\ ppc = "read"
  /\ MayRun(RetrainBusy)
  /\ resp' = Compute(pSeen.data, scaler, model, pName)
  /\ pObs' = [valid |-> TRUE, rpc |-> rpc, queuedAt |-> pQueuedAt,
              stale |-> /\ RetrainBusy
                        /\ pSeen.data = rBefore
                        /\ scaler.fitOn # Values(pSeen.data)]
  /\ PredictReturned
  /\ UNCHANGED <<model, scaler, data, diskModel, diskScaler, diskTable, started,
                 pipeVars, rpc, rUp, rBefore>>

NextConc ==
  \/ ConcStartup
  \/ \E up \in ConcUpstream : RetrainBegin(up)
  \/ RetrainStep
  \/ \E name \in ConcNames : PredictArrive(name)
  \/ PredictRead
  \/ PredictCompute

SpecConc == Init /\ [][NextConc]_vars

(* the first statement group after scaler.fit_transform (line 102) *)
AfterRefit == 5

(* a completed /predict read the scaler while a /retrain that had already  *)
(* refit it was still running, and had read the table of before that       *)
(* /retrain                                                                *)
TornRead ==
  /\ pObs.valid
  /\ pObs.rpc >= AfterRefit
  /\ pObs.stale

----------------------------------------------------------------------------
(* The feature pipeline on its own *)

PointRuns(n) == UNION {[1..k -> Pts] : k \in 0..n}

ExampleRun == <<3, 5, 2, 8, 4, 6>>

(* every run of the first player with every short run of the second, as   *)
(* received or reversed; and every full run of the first player           *)
(* interleaved with the example run of the second                         *)
PipeInputs ==
  {RawFrame(IF rev THEN Reverse(rows) ELSE rows) :
     rows \in {GamesOf(Keeper, a, 1, 1) \o GamesOf(Striker, b, 2, 3) :
                 a \in PointRuns(MaxGames), b \in PointRuns(MaxOther)},
     rev \in BOOLEAN}
  \cup
  {RawFrame(Interleave(GamesOf(Striker, ExampleRun, 2, 3), GamesOf(Keeper, a, 1, 1))) :
     a \in [1..MaxGames -> Pts]}

ExampleInput == RawFrame(Reverse(GamesOf(Striker, ExampleRun, 1, 1)))

InitPipe ==
  /\ ProgInit
  /\ ConcIdle
  /\ pipeIn \in PipeInputs \cup {ExampleInput}
  /\ pipeOut = EmptyFrame
  /\ pipeDone = FALSE

RunPipeline ==
  /\ ~pipeDone
  /\ pipeOut' = preprocess_data(pipeIn).out
  /\ pipeDone' = TRUE
  /\ UNCHANGED <<pipeIn, progVars, concVars>>

NextPipe == RunPipeline

SpecPipe == InitPipe /\ [][NextPipe]_vars

----------------------------------------------------------------------------
(* C7 *)

NamesIn(df) == {ConcatName(df.rows[i]) : i \in 1..Len(df.rows)}

RawOf(df, name) == {df.rows[i] : i \in {j \in 1..Len(df.rows) : ConcatName(df.rows[j]) = name}}

(* the k-th game of a player in gameweek order *)
Game(df, name, k) ==
  CHOOSE r \in RawOf(df, name) :
    Cardinality({q \in RawOf(df, name) : q.gameWeek < r.gameWeek}) = k - 1

MaxOf(S) == CHOOSE m \in S : \A x \in S : x <= m

OutOf(df, name) == SelectSeq(df.rows, LAMBDA r : r.playerName = name)

RowIsGame(r, df, name, k) ==
  /\ r.gameWeek = Game(df, name, k).gameWeek
  /\ r.totalPoints = Game(df, name, k).totalPoints
  /\ r.previousPoints = Val(Game(df, name, k - 1).totalPoints)
  /\ Len(r.avgPointsLast3) = 2
  /\ r.avgPointsLast3[2] > 0
  /\ r.avgPointsLast3[1] * 3 =
       r.avgPointsLast3[2] * (Game(df, name, k - 2).totalPoints
                              + Game(df, name, k - 1).totalPoints
                              + Game(df, name, k).totalPoints)
  /\ r.maxPointsLast5 =
       Val(MaxOf({Game(df, name, j).totalPoints : j \in (k - 4)..k}))

(* C7: for every player of the input with n games, the pipeline returns    *)
(* exactly the games 5..n of that player (0-based positions 4..n-1) in     *)
(* gameweek order, each with previousPoints = the points of the game       *)
(* before, avgPointsLast3 = the mean of the last three games and           *)
(* maxPointsLast5 = the maximum of the last five; no other rows are        *)
(* returned; the example [3,5,2,8,4,6] leaves (8, 14/3, 8) and (4, 6, 8).  *)
C7_Pipeline ==
  pipeDone =>
    /\ \A i \in 1..Len(pipeOut.rows) : pipeOut.rows[i].playerName \in NamesIn(pipeIn)
    /\ \A name \in NamesIn(pipeIn) :
         LET n == Cardinality(RawOf(pipeIn, name))
             out == OutOf(pipeOut, name)
         IN /\ Len(out) = (IF n < 5 THEN 0 ELSE n - 4)
            /\ \A j \in 1..Len(out) : RowIsGame(out[j], pipeIn, name, j + 4)
    /\ pipeIn = ExampleInput =>
         /\ Len(pipeOut.rows) = 2
         /\ pipeOut.rows[1].previousPoints = Val(8)
         /\ pipeOut.rows[1].avgPointsLast3 = <<14, 3>>
         /\ pipeOut.rows[1].maxPointsLast5 = Val(8)
         /\ pipeOut.rows[2].previousPoints = Val(4)
         /\ pipeOut.rows[2].avgPointsLast3 = <<18, 3>>
         /\ pipeOut.rows[2].maxPointsLast5 = Val(8)

(* a table with two players, one with six games and one with fewer than    *)
(* five, received out of order, has been through the pipeline              *)
C7_Witness ==
  /\ pipeDone
  /\ Cardinality(NamesIn(pipeIn)) = 2
  /\ \E name \in NamesIn(pipeIn) : Cardinality(RawOf(pipeIn, name)) = 6
  /\ \E name \in NamesIn(pipeIn) : Cardinality(RawOf(pipeIn, name)) \in 1..4
  /\ pipeIn.rows[1].gameWeek > pipeIn.rows[2].gameWeek
  /\ Len(pipeOut.rows) = 2
  /\ pipeOut.rows[1].avgPointsLast3 # pipeOut.rows[2].avgPointsLast3

----------------------------------------------------------------------------
(* Claims about the service *)

HasRowFor(df, name) == "playerName" \in df.cols /\ Matching(df, name) # <<>>

(* C1: a /predict answered while no model is loaded is answered 503,       *)
(* whatever the name and whatever the working table holds.                 *)
C1_NoModel503 ==
  (resp.op = "predict" /\ ~model.loaded) => resp.status = 503

(* no model is loaded, the table has rows for the player asked for, and    *)
(* the request was answered                                                *)
C1_Witness ==
  /\ resp.op = "predict"
  /\ ~model.loaded
  /\ HasRowFor(data, resp.name)

(* C2: with a model loaded, a /predict for a name with no row in the       *)
(* working table is answered 404.                                          *)
C2_Unknown404 ==
  (resp.op = "predict" /\ model.loaded /\ ~HasRowFor(data, resp.name))
    => resp.status = 404

(* C3: with a model loaded and the player in the table, /predict answers   *)
(* with a prediction: cleanSheetsLast5 and neither percentage for a        *)
(* goalkeeper, both percentages and no cleanSheetsLast5 for anyone else.   *)
C3_PositionKeys ==
  (resp.op = "predict" /\ model.loaded /\ HasRowFor(data, resp.name)) =>
    /\ resp.status = 200
    /\ IF Matching(data, resp.name)[1].position = 1
       THEN /\ "cleanSheetsLast5" \in resp.keys
            /\ resp.keys \cap {"assistsPercentage", "goalsPercentage"} = {}
       ELSE /\ {"assistsPercentage", "goalsPercentage"} \subseteq resp.keys
            /\ "cleanSheetsLast5" \notin resp.keys

(* C4: a startup in which any step raised leaves no model loaded and an    *)
(* empty working table.                                                    *)
C4_FailedStartup ==
  (resp.op = "startup" /\ resp.failedAt # "none") =>
    /\ ~model.loaded
    /\ Len(data.rows) = 0

(* C5: a /retrain that fails leaves the three persisted files as they were *)
C5_FailureKeepsFiles ==
  [][(resp'.op = "retrain" /\ resp'.status # 200)
       => UNCHANGED <<diskModel, diskScaler, diskTable>>]_vars

(* C6: a /retrain whose fetch fails or meets a non-success status answers  *)
(* 500 "Data fetch error" and changes neither the globals nor the files,   *)
(* so that every /predict is answered as it would have been before.        *)
C6_FetchFailure ==
  [][(resp'.op = "retrain" /\ resp'.up.kind # "ok") =>
       /\ resp'.status = 500
       /\ resp'.detail = "Data fetch error"
       /\ UNCHANGED <<model, scaler, data, diskModel, diskScaler, diskTable>>
       /\ \A name \in Names : predict(Globals', name) = predict(Globals, name)]_vars

(* a fetch has failed while a model was loaded and the table had rows      *)
C6_Witness ==
  /\ resp.op = "retrain"
  /\ resp.up.kind # "ok"
  /\ model.loaded
  /\ Len(data.rows) > 0

(* C8: whenever a model is loaded, the scaler is the one fit on the data   *)
(* the model was trained on.                                               *)
C8_Paired ==
  model.loaded => (scaler.fitted /\ scaler.fitOn = model.trainedOn)

PipelineOutputs ==
  {preprocess_data(up.body).out :
     up \in {u \in Upstream : u.kind = "ok" /\ preprocess_data(u.body).ok}}

(* C9: a request leaves the working table as it was or replaces it by a    *)
(* complete output of the feature pipeline, and /predict leaves it as it   *)
(* was.                                                                    *)
C9_AtomicTable ==
  [][/\ resp'.op = "retrain" => (data' = data \/ data' \in PipelineOutputs)
     /\ resp'.op = "predict" => data' = data]_vars

====
